---- MODULE Spec2Model ----
(***************************************************************************)
(* Self-play data generation: the batching Predictor and its future cells  *)
(* (src/src/predictor.rs) and the worker / writer / selection threads that *)
(* drive it (src/src/selfplay.rs).                                         *)
(*                                                                         *)
(* Three specifications share one state:                                   *)
(*   SpecPredictor  a client calling the Predictor's API in any order      *)
(*   SpecWorker     selfplay_thread and write_replays driven by a harness  *)
(*                  that owns the channel ends run_simulation would own    *)
(*   Spec           run_simulation with its worker and writer threads      *)
(***************************************************************************)
EXTENDS Integers, Sequences, FiniteSets, TLC

----------------------------------------------------------------------------
(* Bounds of the model *)

MaxThreads == 2     \* thread_num is drawn from 1..MaxThreads
MaxBatch == 2       \* batch_size is drawn from 0..MaxBatch
NumNames == 2       \* distinct network identifiers
NumGraphs == 2      \* distinct weight handles
NumInputs == 2      \* distinct inference inputs
MaxCells == 3       \* PredictResult cells alive at once, per Predictor
MaxChan == 2        \* notifications queued on one worker's channel
MaxReplays == 2     \* replay records sent over the replay channel
MaxQueued == 1      \* replay records a session finds queued when it sends
GameLen == 2        \* actions after which State::is_terminated holds
SimNum == 1         \* enqueue+await round trips of one MCTS search

(* Program constant: the drive rounds per model-sync cycle *)
DriveRounds == 5

Names == 1..NumNames
Graphs == 1..NumGraphs
Inputs == 1..NumInputs
CellIds == 1..MaxCells
Threads == 1..MaxThreads
SlotIds == 1..MaxBatch

NoName == 0
NoCell == 0
NoVal == <<>>

----------------------------------------------------------------------------
(* The future cell: Rc<Cell<Poll<(ActionVector,f32)>>> *)

Free == [st |-> "Free", val |-> NoVal]
Pending == [st |-> "Pending", val |-> NoVal]
Ready(v) == [st |-> "Ready", val |-> v]

\* PredictResult::new
PredictResult_new == Pending

\* a poll that moves the content out, leaving Pending behind
PredictResult_poll_take(cellmap, c) ==
    [ret |-> cellmap[c], cells |-> [cellmap EXCEPT ![c] = [st |-> "Pending", val |-> <<>>]]]

\* PredictResult::poll: self.res.get() copies the content out and leaves the
\* cell as it is (the waker is re-armed, which no state here records)
PredictResult_poll(cellmap, c) == [ret |-> cellmap[c], cells |-> cellmap]

(* Network::predict_batch: one output per input, in input order *)
Infer(graph, x) == <<graph, x>>

NetworkPredictBatch(graph, source) ==
    [k \in 1..Len(source) |-> Infer(graph, source[k])]

----------------------------------------------------------------------------
(* Predictor: networks is a map name -> loaded network, tasks a map        *)
(* name -> Vec<(State,PredictResult)>; both are functions on the set of    *)
(* keys present.                                                           *)

EmptyMap == [n \in {} |-> 0]

Predictor_new == [networks |-> EmptyMap, tasks |-> EmptyMap]

\* HashMap::insert of one key
MapPut(m, k, v) == [n \in (DOMAIN m) \cup {k} |-> IF n = k THEN v ELSE m[n]]

\* a Predictor that keeps only the network loaded last
load_network_single(nets, name, graph) ==
    IF name \notin DOMAIN nets THEN [n \in {name} |-> graph] ELSE nets

\* a Predictor that replaces a network already loaded
load_network_reload(nets, name, graph) == MapPut(nets, name, graph)

\* Predictor::load_network, the load having succeeded
load_network(nets, name, graph) ==
    IF name \notin DOMAIN nets THEN MapPut(nets, name, graph) ELSE nets

\* the cells a pending-request table refers to
TaskCells(tk) == UNION {{tk[n][k].cell : k \in 1..Len(tk[n])} : n \in DOMAIN tk}

\* PredictQueue::async_predict up to its await: a new cell, pushed with x
\* under name
async_predict_push(tk, name, x, c) ==
    MapPut(tk, name,
           Append(IF name \in DOMAIN tk THEN tk[name] ELSE <<>>,
                  [x |-> x, cell |-> c]))

\* a pairing that runs the outputs backwards
ResolvePos_rev(results, dest, k) == Len(dest) - k + 1

\* the zip of one group: results[k] takes dest[k], for the k both have
ResolvePos(results, dest, k) == k

\* a group whose last cell is left out
ResolveGroup_short(cellmap, results, dest) ==
    LET n == Len(results) - 1
        hit == {results[k] : k \in 1..n}
    IN [c \in DOMAIN cellmap |->
          IF c \in hit
          THEN Ready(dest[CHOOSE k \in 1..n : results[k] = c])
          ELSE cellmap[c]]

ResolveGroup(cellmap, results, dest) ==
    LET n == IF Len(results) < Len(dest) THEN Len(results) ELSE Len(dest)
        hit == {results[k] : k \in 1..n}
        \* a cell listed more than once keeps the last value set
        last(c) == CHOOSE k \in 1..n :
                      /\ results[k] = c
                      /\ \A j \in 1..n : results[j] = c => j <= k
    IN [c \in DOMAIN cellmap |->
          IF c \in hit THEN Ready(dest[ResolvePos(results, dest, last(c))])
          ELSE cellmap[c]]

\* a lookup that falls back to a default network instead of failing
networks_get_default(nets, name) ==
    IF name \in DOMAIN nets THEN [found |-> TRUE, graph |-> nets[name]]
    ELSE [found |-> TRUE, graph |-> 1]

\* self.networks.get(name): the network loaded under name, if any
networks_get(nets, name) ==
    IF name \in DOMAIN nets THEN [found |-> TRUE, graph |-> nets[name]]
    ELSE [found |-> FALSE, graph |-> 0]

\* Predictor::predict_batch: the loop over tasks.iter() in the order the
\* map yields its keys; failAt is the name whose inference call fails.
\* The result says whether the call panicked and what it left behind.
\* calls lists the inference calls made so far, each with its input list.
RECURSIVE predict_loop(_, _, _, _, _, _)
predict_loop(nets, tk, cellmap, order, failAt, calls) ==
    IF order = <<>> THEN [panic |-> FALSE, cells |-> cellmap, calls |-> calls]
    ELSE LET name == Head(order)
             task_vec == tk[name]
             network == networks_get(nets, name)
         IN IF ~network.found
            THEN \* expect("not found network")
                 [panic |-> TRUE, cells |-> cellmap, calls |-> calls]
            ELSE LET source == [k \in 1..Len(task_vec) |-> task_vec[k].x]
                     results == [k \in 1..Len(task_vec) |-> task_vec[k].cell]
                     made == Append(calls, [name |-> name, source |-> source])
                 IN IF name = failAt
                    THEN \* network.predict_batch(..).unwrap() on an Err
                         [panic |-> TRUE, cells |-> cellmap, calls |-> made]
                    ELSE LET dest == NetworkPredictBatch(network.graph, source)
                         IN predict_loop(nets, tk,
                                         ResolveGroup(cellmap, results, dest),
                                         Tail(order), failAt, made)

\* a flush that leaves the table as it found it
ClearTasks_keeps(tk) == tk

\* what tasks.clear() leaves
ClearTasks(tk) == EmptyMap

\* a flush that insists on having something to do
predict_batch_nonempty(nets, tk, cellmap, order, failAt) ==
    LET r == predict_loop(nets, tk, cellmap, order, failAt, <<>>)
    IN IF r.panic \/ DOMAIN tk = {}
       THEN [panic |-> TRUE, cells |-> r.cells, tasks |-> tk, calls |-> r.calls]
       ELSE [panic |-> FALSE, cells |-> r.cells, tasks |-> EmptyMap,
             calls |-> r.calls]

predict_batch(nets, tk, cellmap, order, failAt) ==
    LET r == predict_loop(nets, tk, cellmap, order, failAt, <<>>)
    IN IF r.panic
       THEN [panic |-> TRUE, cells |-> r.cells, tasks |-> tk, calls |-> r.calls]
       ELSE [panic |-> FALSE, cells |-> r.cells, tasks |-> ClearTasks(tk),
             calls |-> r.calls]

\* the orders in which a map with these keys can be iterated
Orders(S) == {o \in [1..Cardinality(S) -> S] : \A i, j \in DOMAIN o : o[i] = o[j] => i = j}

\* a cell is destroyed when its last reference goes: of the cells in
\* dropped, those no holder in held still refers to
DropRefs(cellmap, dropped, held) ==
    [c \in DOMAIN cellmap |-> IF c \in dropped \ held THEN Free ELSE cellmap[c]]

FreeCells(cellmap) == {c \in DOMAIN cellmap : cellmap[c].st = "Free"}

\* Rc::new: some cell that is not alive
NewCell(cellmap) == CHOOSE c \in FreeCells(cellmap) : \A d \in FreeCells(cellmap) : c <= d

----------------------------------------------------------------------------
VARIABLES
    thread_num,        \* SelfPlayParameter.thread_num
    batch_size,        \* SelfPlayParameter.batch_size
    networks,          \* per thread: Predictor.networks
    tasks,             \* per thread: Predictor.tasks
    cells,             \* per thread: the PredictResult cells
    inferLog,          \* per thread: the inference calls of the flush it just ran
    futs,              \* API client: the async_predict futures it holds
    apiOp,             \* API client: the call it just made, with what it returned
    apiPc,             \* API client: "run", or "panic" once a flush panicked
    wpc,               \* per thread: where selfplay_thread is
    round,             \* per thread: the drive round, 0..DriveRounds-1
    polled,            \* per thread: the slots poll_all has polled this round
    graph_info,        \* per thread: CoroutineContext.graph_info
    sess,              \* per thread and slot: the selfplay_coroutine; obs is what
                       \* its await returned in the poll round under way
    chan,              \* per thread: the notifications queued on its channel
    senderAlive,       \* per thread: its notification Sender is not dropped
    replayChan,        \* the replay records queued for the writer
    writerSender,      \* run_simulation's writer_sender is not dropped
    wrPc,              \* where write_replays is
    replay_count,      \* write_replays: replay_count
    sample_count,      \* write_replays: sample_count
    received,          \* the records receiver.recv() returned, in order
    sink,              \* the records passed to writer.write_replay, in order
    flushCalls,        \* the calls of writer.flush
    mainPc,            \* where run_simulation is
    model,             \* run_simulation: graph_filename being broadcast
    idx                \* run_simulation: position in a loop over the threads

predVars == <<networks, tasks, cells, inferLog>>
apiVars == <<futs, apiOp, apiPc>>
workerVars == <<wpc, round, polled, graph_info, sess, chan, senderAlive>>
writerVars == <<replayChan, writerSender, wrPc, replay_count, sample_count,
                received, sink, flushCalls>>
mainVars == <<mainPc, model, idx>>
paramVars == <<thread_num, batch_size>>
vars == <<paramVars, predVars, apiVars, workerVars, writerVars, mainVars>>

NoFut == [name |-> NoName, x |-> 0]
NoOp == <<"none">>
NoGraphInfo == <<NoName, 0>>
NoObs == [name |-> NoName, x |-> 0, out |-> NoVal]
NewSession == [pc |-> "start", name |-> NoName,
               state |-> [turn |-> 0, over |-> FALSE], samples |-> <<>>,
               sim |-> 0, cell |-> NoCell, req |-> 0, obs |-> NoObs]

\* the state every specification starts from, the parameters apart
InitCommon ==
    /\ networks = [t \in Threads |-> Predictor_new.networks]
    /\ tasks = [t \in Threads |-> Predictor_new.tasks]
    /\ cells = [t \in Threads |-> [c \in CellIds |-> Free]]
    /\ inferLog = [t \in Threads |-> <<>>]
    /\ futs = [c \in CellIds |-> NoFut]
    /\ apiOp = NoOp
    /\ apiPc = "run"
    /\ wpc = [t \in Threads |-> "boot"]
    /\ round = [t \in Threads |-> 0]
    /\ polled = [t \in Threads |-> {}]
    /\ graph_info = [t \in Threads |-> NoGraphInfo]
    /\ sess = [t \in Threads |-> [i \in SlotIds |-> NewSession]]
    /\ chan = [t \in Threads |-> <<>>]
    /\ senderAlive = [t \in Threads |-> TRUE]
    /\ replayChan = <<>>
    /\ writerSender = TRUE
    /\ wrPc = "run"
    /\ replay_count = 0
    /\ sample_count = 0
    /\ received = <<>>
    /\ sink = <<>>
    /\ flushCalls = 0
    /\ model = NoName
    /\ idx = 0

----------------------------------------------------------------------------
(* SpecPredictor: one Predictor (thread P's) and a client of its API *)

P == 1

\* the futures the client holds
HeldByClient == {c \in CellIds : futs[c] # NoFut}

InitPredictor ==
    /\ InitCommon
    /\ thread_num = 1
    /\ batch_size = 0
    /\ mainPc = "api"

\* predictor.load_network(name, graph)
ApiLoadNetwork(name, graph) ==
    /\ apiPc = "run"
    /\ networks' = [networks EXCEPT ![P] = load_network(@, name, graph)]
    /\ apiOp' = <<"load_network", name, graph>>
    /\ inferLog' = [inferLog EXCEPT ![P] = <<>>]
    /\ UNCHANGED <<tasks, cells, futs, apiPc, paramVars, workerVars,
                   writerVars, mainVars>>

\* the first poll of queue.async_predict(name, x): push, then Pending
ApiAsyncPredict(name, x) ==
    /\ apiPc = "run"
    /\ FreeCells(cells[P]) # {}
    /\ LET c == NewCell(cells[P])
       IN /\ cells' = [cells EXCEPT ![P][c] = PredictResult_new]
          /\ tasks' = [tasks EXCEPT ![P] = async_predict_push(@, name, x, c)]
          /\ futs' = [futs EXCEPT ![c] = [name |-> name, x |-> x]]
          /\ apiOp' = <<"async_predict", c, PredictResult_poll(cells'[P], c).ret>>
          /\ inferLog' = [inferLog EXCEPT ![P] = <<>>]
    /\ UNCHANGED <<networks, apiPc, paramVars, workerVars, writerVars,
                   mainVars>>

\* a later poll of a future the client holds
ApiPoll(c) ==
    /\ apiPc = "run"
    /\ c \in HeldByClient
    /\ LET r == PredictResult_poll(cells[P], c)
       IN /\ apiOp' = <<"poll", c, r.ret>>
          /\ cells' = [cells EXCEPT ![P] = r.cells]
    /\ inferLog' = [inferLog EXCEPT ![P] = <<>>]
    /\ UNCHANGED <<networks, tasks, futs, apiPc, paramVars, workerVars,
                   writerVars, mainVars>>

\* the client drops a future
ApiDrop(c) ==
    /\ apiPc = "run"
    /\ c \in HeldByClient
    /\ futs' = [futs EXCEPT ![c] = NoFut]
    /\ apiOp' = <<"drop", c>>
    /\ cells' = [cells EXCEPT ![P] = DropRefs(@, {c}, TaskCells(tasks[P]))]
    /\ inferLog' = [inferLog EXCEPT ![P] = <<>>]
    /\ UNCHANGED <<networks, tasks, apiPc, paramVars, workerVars,
                   writerVars, mainVars>>

\* predictor.predict_batch(setting)
ApiPredictBatch ==
    /\ apiPc = "run"
    /\ \E order \in Orders(DOMAIN tasks[P]), failAt \in Names \cup {NoName} :
         LET r == predict_batch(networks[P], tasks[P], cells[P], order, failAt)
         IN /\ apiPc' = IF r.panic THEN "panic" ELSE "run"
            /\ tasks' = [tasks EXCEPT ![P] = r.tasks]
            /\ cells' = [cells EXCEPT ![P] =
                            IF r.panic THEN r.cells
                            ELSE DropRefs(r.cells, TaskCells(tasks[P]), HeldByClient)]
            /\ inferLog' = [inferLog EXCEPT ![P] = r.calls]
    /\ apiOp' = <<"predict_batch", DOMAIN tasks[P]>>
    /\ UNCHANGED <<networks, futs, paramVars, workerVars, writerVars, mainVars>>

NextPredictor ==
    \/ \E name \in Names, graph \in Graphs : ApiLoadNetwork(name, graph)
    \/ \E name \in Names, x \in Inputs : ApiAsyncPredict(name, x)
    \/ \E c \in CellIds : ApiPoll(c)
    \/ \E c \in CellIds : ApiDrop(c)
    \/ ApiPredictBatch

SpecPredictor == InitPredictor /\ [][NextPredictor]_vars

----------------------------------------------------------------------------
(* The self-play session: selfplay_coroutine around selfplay_craftone.     *)
(* A game state is its turn and whether it is terminated; an action may    *)
(* end the game, and the GameLen-th does; a search makes SimNum prediction *)
(* round trips, each for an input the search chooses.                      *)

initial_state == [turn |-> 0, over |-> FALSE]
is_terminated(state) == state.over
run_action(state, ends) ==
    [turn |-> state.turn + 1, over |-> ends \/ state.turn + 1 >= GameLen]
get_reward(state) == 100 + state.turn

\* a session that reads the current-version cell for its first game only
BeginGame_same_version(s, gi) ==
    [s EXCEPT !.pc = "run", !.name = IF s.name = NoName THEN gi[1] ELSE s.name,
              !.state = initial_state, !.samples = <<>>, !.sim = 0,
              !.cell = NoCell]

\* selfplay_coroutine line 113 and selfplay_craftone lines 82-87: the game
\* starts under the identifier the current-version cell holds now
BeginGame(s, gi) ==
    [s EXCEPT !.pc = "run", !.name = gi[1], !.state = initial_state,
              !.samples = <<>>, !.sim = 0, !.cell = NoCell]

\* async_predict up to the await, for the session: result is the session
\* suspended on its new cell
SessionEnqueue(s, tk, cm, x) ==
    LET c == NewCell(cm)
    IN [sess |-> [s EXCEPT !.pc = "await", !.cell = c, !.req = x],
        tasks |-> async_predict_push(tk, s.name, x, c),
        cells |-> [cm EXCEPT ![c] = PredictResult_new],
        replays |-> <<>>, panic |-> FALSE]

\* a record that carries no identifier
MakeReplay_untagged(s) ==
    [samples |-> s.samples, name |-> NoName, last_state |-> s.state,
     reward |-> get_reward(s.state)]

\* the record selfplay_craftone returns
MakeReplay(s) ==
    [samples |-> s.samples, name |-> s.name, last_state |-> s.state,
     reward |-> get_reward(s.state)]

\* a session that reads the current-version cell again before every search
AfterSearch_reread(s, tk, cm, gi, x, ends, recvAlive) ==
    LET s1 == [s EXCEPT !.samples = Append(@, s.state),
                        !.state = run_action(@, ends), !.sim = 0,
                        !.name = gi[1]]
    IN IF ~is_terminated(s1.state) THEN SessionEnqueue(s1, tk, cm, x)
       ELSE IF ~recvAlive
       THEN [sess |-> s1, tasks |-> tk, cells |-> cm, replays |-> <<>>,
             panic |-> TRUE]
       ELSE LET r == SessionEnqueue(BeginGame(s1, gi), tk, cm, x)
            IN [r EXCEPT !.replays = <<MakeReplay(s1)>>]

\* a session that records the state its action led to
AfterSearch_sample_after(s, tk, cm, gi, x, ends, recvAlive) ==
    LET s1 == [s EXCEPT !.samples = Append(@, run_action(s.state, ends)),
                        !.state = run_action(@, ends), !.sim = 0]
    IN IF ~is_terminated(s1.state) THEN SessionEnqueue(s1, tk, cm, x)
       ELSE IF ~recvAlive
       THEN [sess |-> s1, tasks |-> tk, cells |-> cm, replays |-> <<>>,
             panic |-> TRUE]
       ELSE LET r == SessionEnqueue(BeginGame(s1, gi), tk, cm, x)
            IN [r EXCEPT !.replays = <<MakeReplay(s1)>>]

\* a session that takes no notice of a failed send
AfterSearch_ignores_send_error(s, tk, cm, gi, x, ends, recvAlive) ==
    LET s1 == [s EXCEPT !.samples = Append(@, s.state),
                        !.state = run_action(@, ends), !.sim = 0]
    IN IF ~is_terminated(s1.state) THEN SessionEnqueue(s1, tk, cm, x)
       ELSE LET r == SessionEnqueue(BeginGame(s1, gi), tk, cm, x)
            IN [r EXCEPT !.replays = IF recvAlive THEN <<MakeReplay(s1)>> ELSE <<>>]

\* selfplay_craftone from the end of a search on: the sample, the action,
\* and either the next search or the end of the game, the send of its replay
\* and the start of the next game
AfterSearch(s, tk, cm, gi, x, ends, recvAlive) ==
    LET s1 == [s EXCEPT !.samples = Append(@, s.state),
                        !.state = run_action(@, ends), !.sim = 0]
    IN IF ~is_terminated(s1.state) THEN SessionEnqueue(s1, tk, cm, x)
       ELSE IF ~recvAlive
       THEN \* writer_sender.send(..).unwrap() on a closed channel
            [sess |-> s1, tasks |-> tk, cells |-> cm, replays |-> <<>>,
             panic |-> TRUE]
       ELSE LET r == SessionEnqueue(BeginGame(s1, gi), tk, cm, x)
            IN [r EXCEPT !.replays = <<MakeReplay(s1)>>]

\* one poll of a session by the executor: it runs to its next await
SessionPoll(s, tk, cm, gi, x, ends, recvAlive) ==
    IF s.pc = "start" THEN SessionEnqueue(BeginGame(s, gi), tk, cm, x)
    ELSE LET r == PredictResult_poll(cm, s.cell)
         IN IF r.ret.st # "Ready"
            THEN [sess |-> s, tasks |-> tk, cells |-> r.cells, replays |-> <<>>,
                  panic |-> FALSE]
            ELSE LET s1 == [s EXCEPT !.cell = NoCell, !.sim = @ + 1,
                                     !.obs = [name |-> s.name, x |-> s.req,
                                              out |-> r.ret.val]]
                     cm1 == DropRefs(r.cells, {s.cell}, TaskCells(tk))
                 IN IF s1.sim < SimNum THEN SessionEnqueue(s1, tk, cm1, x)
                    ELSE AfterSearch(s1, tk, cm1, gi, x, ends, recvAlive)

----------------------------------------------------------------------------
(* selfplay_thread *)

Spawned == 1..thread_num
Slots == 1..batch_size

\* the thread has returned or panicked: its Receiver and its clones of
\* writer_sender are dropped
Ended(t) == wpc[t] \in {"done", "panic", "panic_send"}

\* the thread has panicked: on the unwrap of a failed send ("panic_send") or
\* on another unwrap or expect ("panic")
Panicked(t) == wpc[t] \in {"panic", "panic_send"}

\* write_replays has returned or panicked: the replay Receiver is dropped
WriterEnded == wrPc \in {"done", "panic"}

\* the cells the sessions of thread t hold
HeldBySessions(t) == {sess[t][i].cell : i \in SlotIds} \ {NoCell}

\* the replay records sent so far: those received and those still queued
SentCount == Len(received) + Len(replayChan)

\* a panic unwinds the thread: its Predictor, its sessions and their cells,
\* its Receiver and what is queued on it are dropped; the other variables
\* are left alone
UnwindAs(t, how) ==
    /\ wpc' = [wpc EXCEPT ![t] = how]
    /\ networks' = [networks EXCEPT ![t] = EmptyMap]
    /\ tasks' = [tasks EXCEPT ![t] = EmptyMap]
    /\ cells' = [cells EXCEPT ![t] = [c \in CellIds |-> Free]]
    /\ inferLog' = [inferLog EXCEPT ![t] = <<>>]
    /\ round' = [round EXCEPT ![t] = 0]
    /\ polled' = [polled EXCEPT ![t] = {}]
    /\ graph_info' = [graph_info EXCEPT ![t] = NoGraphInfo]
    /\ sess' = [sess EXCEPT ![t] = [i \in SlotIds |-> NewSession]]
    /\ chan' = [chan EXCEPT ![t] = <<>>]

Unwind(t) == UnwindAs(t, "panic")

\* lines 122-142: the blocking recv, the first load, the sessions
Boot(t) ==
    /\ t \in Spawned /\ wpc[t] = "boot"
    /\ chan[t] # <<>>
    /\ \E loadOk \in BOOLEAN :
         LET gi == Head(chan[t])
         IN IF loadOk
            THEN /\ chan' = [chan EXCEPT ![t] = Tail(@)]
                 /\ networks' = [networks EXCEPT ![t] =
                                   load_network(Predictor_new.networks, gi[1], gi[2])]
                 /\ graph_info' = [graph_info EXCEPT ![t] = gi]
                 /\ sess' = [sess EXCEPT ![t] = [i \in SlotIds |-> NewSession]]
                 /\ wpc' = [wpc EXCEPT ![t] = "sync"]
                 /\ UNCHANGED <<tasks, cells, inferLog, round, polled>>
            ELSE \* Network::load_graph(graph).unwrap()
                 Unwind(t)
    /\ UNCHANGED <<senderAlive, apiVars, paramVars, writerVars, mainVars>>

\* a bootstrap that goes on to the production loop when recv() fails
BootClosed_goes_on(t) ==
    /\ t \in Spawned /\ wpc[t] = "boot"
    /\ chan[t] = <<>> /\ ~senderAlive[t]
    /\ wpc' = [wpc EXCEPT ![t] = "drive"]
    /\ UNCHANGED <<predVars, round, polled, graph_info, sess, chan, senderAlive,
                   apiVars, paramVars, writerVars, mainVars>>

\* lines 122-125: recv() fails, the channel being closed and empty
BootClosed(t) ==
    /\ t \in Spawned /\ wpc[t] = "boot"
    /\ chan[t] = <<>> /\ ~senderAlive[t]
    /\ wpc' = [wpc EXCEPT ![t] = "done"]
    /\ UNCHANGED <<predVars, round, polled, graph_info, sess, chan, senderAlive,
                   apiVars, paramVars, writerVars, mainVars>>

\* a model sync that loads what it receives and leaves the current-version
\* cell alone
SyncRecv_keeps_version(t) ==
    /\ t \in Spawned /\ wpc[t] = "sync"
    /\ chan[t] # <<>>
    /\ \E loadOk \in BOOLEAN :
         LET gi == Head(chan[t])
         IN IF loadOk \/ gi[1] \in DOMAIN networks[t]
            THEN /\ chan' = [chan EXCEPT ![t] = Tail(@)]
                 /\ networks' = [networks EXCEPT ![t] = load_network(@, gi[1], gi[2])]
                 /\ inferLog' = [inferLog EXCEPT ![t] = <<>>]
                 /\ UNCHANGED <<wpc, tasks, cells, round, polled, sess, graph_info>>
            ELSE Unwind(t)
    /\ UNCHANGED <<senderAlive, apiVars, paramVars, writerVars, mainVars>>

\* lines 148-152: try_recv() returns a notification
SyncRecv(t) ==
    /\ t \in Spawned /\ wpc[t] = "sync"
    /\ chan[t] # <<>>
    /\ \E loadOk \in BOOLEAN :
         LET gi == Head(chan[t])
         IN IF loadOk \/ gi[1] \in DOMAIN networks[t]
            THEN /\ chan' = [chan EXCEPT ![t] = Tail(@)]
                 /\ networks' = [networks EXCEPT ![t] = load_network(@, gi[1], gi[2])]
                 /\ graph_info' = [graph_info EXCEPT ![t] = gi]
                 /\ inferLog' = [inferLog EXCEPT ![t] = <<>>]
                 /\ UNCHANGED <<wpc, tasks, cells, round, polled, sess>>
            ELSE Unwind(t)
    /\ UNCHANGED <<senderAlive, apiVars, paramVars, writerVars, mainVars>>

\* line 154: try_recv() finds the channel empty
SyncEmpty(t) ==
    /\ t \in Spawned /\ wpc[t] = "sync"
    /\ chan[t] = <<>> /\ senderAlive[t]
    /\ wpc' = [wpc EXCEPT ![t] = "drive"]
    /\ round' = [round EXCEPT ![t] = 0]
    /\ polled' = [polled EXCEPT ![t] = {}]
    /\ inferLog' = [inferLog EXCEPT ![t] = <<>>]
    /\ UNCHANGED <<networks, tasks, cells, graph_info, sess, chan, senderAlive,
                   apiVars, paramVars, writerVars, mainVars>>

\* a model sync that treats a closed channel as an empty one
SyncDisconnected_as_empty(t) ==
    /\ t \in Spawned /\ wpc[t] = "sync"
    /\ chan[t] = <<>> /\ ~senderAlive[t]
    /\ wpc' = [wpc EXCEPT ![t] = "drive"]
    /\ round' = [round EXCEPT ![t] = 0]
    /\ polled' = [polled EXCEPT ![t] = {}]
    /\ inferLog' = [inferLog EXCEPT ![t] = <<>>]
    /\ UNCHANGED <<networks, tasks, cells, graph_info, sess, chan, senderAlive,
                   apiVars, paramVars, writerVars, mainVars>>

\* line 153: try_recv() finds the channel closed; the thread returns, and
\* the model keeps what it held at that moment
SyncDisconnected(t) ==
    /\ t \in Spawned /\ wpc[t] = "sync"
    /\ chan[t] = <<>> /\ ~senderAlive[t]
    /\ wpc' = [wpc EXCEPT ![t] = "done"]
    /\ inferLog' = [inferLog EXCEPT ![t] = <<>>]
    /\ UNCHANGED <<networks, tasks, cells, round, polled, graph_info, sess, chan,
                   senderAlive, apiVars, paramVars, writerVars, mainVars>>

\* line 159, executor.poll_all(): the poll of one slot not yet polled in
\* this round
PollSession(t, i) ==
    /\ t \in Spawned /\ wpc[t] = "drive"
    /\ i \in Slots \ polled[t]
    /\ \E x \in Inputs, ends \in BOOLEAN :
         LET r == SessionPoll(sess[t][i], tasks[t], cells[t], graph_info[t], x,
                              ends, ~WriterEnded)
         IN /\ r.replays # <<>> => (SentCount < MaxReplays /\ Len(replayChan) < MaxQueued)
            /\ IF r.panic
               THEN /\ UnwindAs(t, "panic_send")
                    /\ UNCHANGED replayChan
               ELSE /\ sess' = [sess EXCEPT ![t][i] = r.sess]
                    /\ tasks' = [tasks EXCEPT ![t] = r.tasks]
                    /\ cells' = [cells EXCEPT ![t] = r.cells]
                    /\ replayChan' = replayChan \o r.replays
                    /\ polled' = [polled EXCEPT ![t] = @ \cup {i}]
                    /\ inferLog' = [inferLog EXCEPT ![t] = <<>>]
                    /\ UNCHANGED <<wpc, networks, round, graph_info, chan>>
    /\ UNCHANGED <<senderAlive, apiVars, paramVars, writerSender, wrPc,
                   replay_count, sample_count, received, sink, flushCalls, mainVars>>

\* a flush that does not wait for poll_all to return
Flush_unguarded(t) ==
    /\ t \in Spawned /\ wpc[t] = "drive"
    /\ \E order \in Orders(DOMAIN tasks[t]), failAt \in Names \cup {NoName} :
         LET r == predict_batch(networks[t], tasks[t], cells[t], order, failAt)
         IN IF r.panic
            THEN Unwind(t)
            ELSE /\ inferLog' = [inferLog EXCEPT ![t] = r.calls]
                 /\ tasks' = [tasks EXCEPT ![t] = r.tasks]
                 /\ cells' = [cells EXCEPT ![t] =
                                DropRefs(r.cells, TaskCells(tasks[t]), HeldBySessions(t))]
                 /\ polled' = [polled EXCEPT ![t] = {}]
                 /\ sess' = [sess EXCEPT ![t] =
                               [i \in SlotIds |-> [@[i] EXCEPT !.obs = NoObs]]]
                 /\ IF round[t] + 1 < DriveRounds
                    THEN /\ round' = [round EXCEPT ![t] = @ + 1]
                         /\ UNCHANGED wpc
                    ELSE /\ round' = [round EXCEPT ![t] = 0]
                         /\ wpc' = [wpc EXCEPT ![t] = "sync"]
                 /\ UNCHANGED <<networks, graph_info, chan>>
    /\ UNCHANGED <<senderAlive, apiVars, paramVars, writerVars, mainVars>>

\* line 160, predictor.predict_batch(), once poll_all has polled every slot
Flush(t) ==
    /\ t \in Spawned /\ wpc[t] = "drive"
    /\ polled[t] = Slots
    /\ \E order \in Orders(DOMAIN tasks[t]), failAt \in Names \cup {NoName} :
         LET r == predict_batch(networks[t], tasks[t], cells[t], order, failAt)
         IN IF r.panic
            THEN Unwind(t)
            ELSE /\ inferLog' = [inferLog EXCEPT ![t] = r.calls]
                 /\ tasks' = [tasks EXCEPT ![t] = r.tasks]
                 /\ cells' = [cells EXCEPT ![t] =
                                DropRefs(r.cells, TaskCells(tasks[t]), HeldBySessions(t))]
                 /\ polled' = [polled EXCEPT ![t] = {}]
                 /\ sess' = [sess EXCEPT ![t] =
                               [i \in SlotIds |-> [@[i] EXCEPT !.obs = NoObs]]]
                 /\ IF round[t] + 1 < DriveRounds
                    THEN /\ round' = [round EXCEPT ![t] = @ + 1]
                         /\ UNCHANGED wpc
                    ELSE /\ round' = [round EXCEPT ![t] = 0]
                         /\ wpc' = [wpc EXCEPT ![t] = "sync"]
                 /\ UNCHANGED <<networks, graph_info, chan>>
    /\ UNCHANGED <<senderAlive, apiVars, paramVars, writerVars, mainVars>>

WorkerStep(t) ==
    \/ Boot(t)
    \/ BootClosed(t)
    \/ SyncRecv(t)
    \/ SyncEmpty(t)
    \/ SyncDisconnected(t)
    \/ \E i \in SlotIds : PollSession(t, i)
    \/ Flush(t)

----------------------------------------------------------------------------
(* write_replays *)

\* every Sender of the replay channel is dropped: run_simulation's and the
\* clone each spawned thread holds until it ends
ReplayChannelClosed == ~writerSender /\ \A t \in Spawned : Ended(t)

\* a writer that writes every record twice
WriteCalls_twice(replay) == <<replay, replay>>

\* what writer.write_replay is called with for a received record
WriteCalls(replay) == <<replay>>

\* lines 200-214: recv() returns a record; it is counted and written
WriterRecv ==
    /\ wrPc = "run"
    /\ replayChan # <<>>
    /\ \E writeOk \in BOOLEAN :
         LET replay == Head(replayChan)
         IN /\ replayChan' = Tail(replayChan)
            /\ received' = Append(received, replay)
            /\ replay_count' = replay_count + 1
            /\ sample_count' = sample_count + Len(replay.samples)
            /\ sink' = sink \o WriteCalls(replay)
            /\ wrPc' = IF writeOk THEN "run" ELSE "panic"
    /\ UNCHANGED <<flushCalls, writerSender, predVars, apiVars, workerVars,
                   paramVars, mainVars>>

\* lines 200 and 216: recv() fails, the channel being closed and empty; the
\* sink is flushed
WriterClosed ==
    /\ wrPc = "run"
    /\ replayChan = <<>> /\ ReplayChannelClosed
    /\ \E flushOk \in BOOLEAN :
         /\ flushCalls' = flushCalls + 1
         /\ wrPc' = IF flushOk THEN "done" ELSE "panic"
    /\ UNCHANGED <<replayChan, received, replay_count, sample_count, sink,
                   writerSender, predVars, apiVars, workerVars, paramVars, mainVars>>

WriterStep == WriterRecv \/ WriterClosed

----------------------------------------------------------------------------
(* SpecWorker: the threads run_simulation spawns, with a harness holding   *)
(* the Senders of the notification channels and the first writer_sender    *)

InitWorker ==
    /\ InitCommon
    /\ thread_num = 1
    /\ batch_size \in 0..MaxBatch
    /\ mainPc = "harness"

\* graph_cache.load_graph(name): the weights kept under a file name
load_graph(name) == ((name - 1) % NumGraphs) + 1

\* sender.send((name, graph)) with the pair run_simulation sends for name; a
\* send on a channel whose Receiver is gone returns an error and queues
\* nothing
HarnessSend(t, name) ==
    /\ t \in Spawned /\ senderAlive[t]
    /\ Len(chan[t]) < MaxChan
    /\ chan' = [chan EXCEPT ![t] = IF Ended(t) THEN @
                                   ELSE Append(@, <<name, load_graph(name)>>)]
    /\ UNCHANGED <<predVars, apiVars, wpc, round, polled, graph_info, sess,
                   senderAlive, writerVars, paramVars, mainVars>>

\* drop(sender)
HarnessClose(t) ==
    /\ t \in Spawned /\ senderAlive[t]
    /\ senderAlive' = [senderAlive EXCEPT ![t] = FALSE]
    /\ UNCHANGED <<predVars, apiVars, wpc, round, polled, graph_info, sess, chan,
                   writerVars, paramVars, mainVars>>

\* receiver.recv() by the harness, which holds the replay Receiver in place
\* of write_replays and keeps no record of what it takes
HarnessRecv ==
    /\ wrPc = "run"
    /\ replayChan # <<>>
    /\ replayChan' = Tail(replayChan)
    /\ UNCHANGED <<predVars, apiVars, workerVars, writerSender, wrPc, replay_count,
                   sample_count, received, sink, flushCalls, paramVars, mainVars>>

NextWorker ==
    \/ \E t \in Threads : WorkerStep(t)
    \/ \E t \in Threads, name \in Names : HarnessSend(t, name)
    \/ \E t \in Threads : HarnessClose(t)
    \/ HarnessRecv

SpecWorker == InitWorker /\ [][NextWorker]_vars

----------------------------------------------------------------------------
(* SpecWriter: write_replays, with a harness holding every Sender of the   *)
(* replay channel                                                          *)

InitWriter ==
    /\ InitCommon
    /\ thread_num = 0
    /\ batch_size = 0
    /\ mainPc = "harness"

\* the records a game of n actions under a name yields
ReplayOf(name, n) ==
    [samples |-> [k \in 1..n |-> [turn |-> k - 1, over |-> FALSE]], name |-> name,
     last_state |-> [turn |-> n, over |-> TRUE],
     reward |-> get_reward([turn |-> n, over |-> TRUE])]

\* sender.send(replay); on a channel whose Receiver is gone nothing is queued
HarnessSendReplay(name, n) ==
    /\ writerSender
    /\ SentCount < MaxReplays
    /\ replayChan' = IF WriterEnded THEN replayChan
                     ELSE Append(replayChan, ReplayOf(name, n))
    /\ UNCHANGED <<predVars, apiVars, workerVars, writerSender, wrPc, replay_count,
                   sample_count, received, sink, flushCalls, paramVars, mainVars>>

\* drop(writer_sender)
HarnessDropWriterSender ==
    /\ writerSender
    /\ writerSender' = FALSE
    /\ UNCHANGED <<predVars, apiVars, workerVars, replayChan, wrPc, replay_count,
                   sample_count, received, sink, flushCalls, paramVars, mainVars>>

NextWriter ==
    \/ WriterStep
    \/ \E name \in Names, n \in 1..GameLen : HarnessSendReplay(name, n)
    \/ HarnessDropWriterSender

SpecWriter == InitWriter /\ [][NextWriter]_vars

\* the writer thread is scheduled as long as it can take a step
FairSpecWriter == SpecWriter /\ WF_vars(WriterStep)

----------------------------------------------------------------------------
(* Spec: run_simulation, the threads it spawns and the writer *)

\* several threads are run without sessions, one thread with up to MaxBatch
Init ==
    /\ InitCommon
    /\ thread_num \in 0..MaxThreads
    /\ batch_size \in 0..MaxBatch
    /\ thread_num <= 1 \/ batch_size = 0
    /\ mainPc = "select"

\* a panic of run_simulation unwinds it: selfplay_senders and writer_sender
\* are dropped with the other locals
MainUnwindAs(how) ==
    /\ mainPc' = how
    /\ senderAlive' = [t \in Threads |-> FALSE]
    /\ writerSender' = FALSE

MainUnwind == MainUnwindAs("panic")

\* lines 253-272: the selection policy answers Ok(None), Ok(Some(name)) or
\* Err; outcome is NoName for Ok(None), a name for Ok(Some(name)), -1 for Err
MainSelect ==
    /\ mainPc = "select"
    /\ \E outcome \in Names \cup {NoName, -1}, loadOk \in BOOLEAN :
         IF outcome = NoName
         THEN /\ mainPc' = "sleep"
              /\ UNCHANGED <<model, idx, senderAlive, writerSender>>
         ELSE IF outcome = -1
         THEN /\ mainPc' = "drop"
              /\ UNCHANGED <<model, idx, senderAlive, writerSender>>
         ELSE IF loadOk
         THEN /\ mainPc' = IF thread_num = 0 THEN "sleep" ELSE "broadcast"
              /\ model' = outcome
              /\ idx' = 1
              /\ UNCHANGED <<senderAlive, writerSender>>
         ELSE \* graph_cache.load_graph(&graph_filename).unwrap()
              /\ MainUnwind
              /\ UNCHANGED <<model, idx>>
    /\ UNCHANGED <<predVars, apiVars, wpc, round, polled, graph_info, sess, chan,
                   replayChan, wrPc, replay_count, sample_count, received, sink,
                   flushCalls, paramVars>>

\* lines 264-266: one send of the broadcast loop
MainSend ==
    /\ mainPc = "broadcast"
    /\ Len(chan[idx]) < MaxChan
    /\ IF Ended(idx)
       THEN \* sender.send(..).unwrap() on a channel whose Receiver is gone
            /\ MainUnwindAs("panic_send")
            /\ UNCHANGED <<chan, idx>>
       ELSE /\ chan' = [chan EXCEPT ![idx] = Append(@, <<model, load_graph(model)>>)]
            /\ idx' = IF idx < thread_num THEN idx + 1 ELSE idx
            /\ mainPc' = IF idx < thread_num THEN "broadcast" ELSE "sleep"
            /\ UNCHANGED <<senderAlive, writerSender>>
    /\ UNCHANGED <<predVars, apiVars, wpc, round, polled, graph_info, sess, model,
                   replayChan, wrPc, replay_count, sample_count, received, sink,
                   flushCalls, paramVars>>

\* line 273: the sleep ends and the loop goes round
MainSleep ==
    /\ mainPc = "sleep"
    /\ mainPc' = "select"
    /\ UNCHANGED <<predVars, apiVars, workerVars, writerVars, model, idx, paramVars>>

\* what drop(sender) leaves of the Senders when sender is a reference to one
\* of them: the reference goes, the Senders stay
DropSenderRefs(alive) == alive

\* lines 276-278: the loop over &selfplay_senders
MainDropSenders ==
    /\ mainPc = "drop"
    /\ senderAlive' = DropSenderRefs(senderAlive)
    /\ mainPc' = IF thread_num = 0 THEN "dropw" ELSE "join"
    /\ idx' = 1
    /\ UNCHANGED <<predVars, apiVars, wpc, round, polled, graph_info, sess, chan,
                   writerVars, model, paramVars>>

\* lines 186-190, wait_threads: handle.join().unwrap() of one thread, which
\* blocks until that thread has ended
MainJoin ==
    /\ mainPc = "join"
    /\ Ended(idx)
    /\ IF Panicked(idx)
       THEN /\ MainUnwind
            /\ UNCHANGED idx
       ELSE /\ idx' = IF idx < thread_num THEN idx + 1 ELSE idx
            /\ mainPc' = IF idx < thread_num THEN "join" ELSE "dropw"
            /\ UNCHANGED <<senderAlive, writerSender>>
    /\ UNCHANGED <<predVars, apiVars, wpc, round, polled, graph_info, sess, chan,
                   model, replayChan, wrPc, replay_count, sample_count, received,
                   sink, flushCalls, paramVars>>

\* line 280: drop(writer_sender)
MainDropWriterSender ==
    /\ mainPc = "dropw"
    /\ writerSender' = FALSE
    /\ mainPc' = "joinw"
    /\ UNCHANGED <<predVars, apiVars, workerVars, replayChan, wrPc, replay_count,
                   sample_count, received, sink, flushCalls, model, idx, paramVars>>

\* lines 281-282: writer_handle.join().unwrap(), and the return, which drops
\* selfplay_senders
MainJoinWriter ==
    /\ mainPc = "joinw"
    /\ WriterEnded
    /\ IF wrPc = "panic"
       THEN MainUnwind
       ELSE /\ mainPc' = "done"
            /\ senderAlive' = [t \in Threads |-> FALSE]
            /\ UNCHANGED writerSender
    /\ UNCHANGED <<predVars, apiVars, wpc, round, polled, graph_info, sess, chan,
                   model, idx, replayChan, wrPc, replay_count, sample_count,
                   received, sink, flushCalls, paramVars>>

MainStep ==
    \/ MainSelect
    \/ MainSend
    \/ MainSleep
    \/ MainDropSenders
    \/ MainJoin
    \/ MainDropWriterSender
    \/ MainJoinWriter

Next ==
    \/ MainStep
    \/ \E t \in Threads : WorkerStep(t)
    \/ WriterStep

Spec == Init /\ [][Next]_vars

----------------------------------------------------------------------------
(* Claims about the Predictor, checked under SpecPredictor *)

\* a step in which predict_batch ran and returned
FlushReturned == apiOp'[1] = "predict_batch" /\ apiPc = "run" /\ apiPc' = "run"

\* the inputs of name's request list, in list order
SourceOf(tk, name) == [k \in 1..Len(tk[name]) |-> tk[name][k].x]

\* C1: after a flush over loaded identifiers whose inference calls return one
\* output per input, every future the client holds is Ready, and the cell of
\* the k-th request under an identifier holds the k-th output of that
\* identifier's batch.
C1_FlushResolvesPositionally ==
    [][FlushReturned =>
         /\ \A c \in HeldByClient : cells'[P][c].st = "Ready"
         /\ \A name \in DOMAIN tasks[P] : \A k \in 1..Len(tasks[P][name]) :
              LET c == tasks[P][name][k].cell
                  batch == NetworkPredictBatch(networks[P][name], SourceOf(tasks[P], name))
              IN c \in HeldByClient => cells'[P][c] = Ready(batch[k])]_vars

\* a flush has resolved two identifiers, one of them with two different inputs
C1_Witness ==
    /\ apiPc = "run"
    /\ apiOp[1] = "predict_batch"
    /\ Len(inferLog[P]) = 2
    /\ \E i \in 1..2 : /\ Len(inferLog[P][i].source) = 2
                       /\ inferLog[P][i].source[1] # inferLog[P][i].source[2]
    /\ Cardinality(HeldByClient) = 3
    /\ \A c \in HeldByClient : cells[P][c].st = "Ready"

\* C3: a cell starts Pending, becomes Ready only in a step in which a flush
\* made an inference call, and while it is alive a Ready cell keeps its
\* value: no step takes it back to Pending or changes the value, and a poll
\* of a Ready cell returns that value.
C3_CellSetOnce ==
    [][\A c \in CellIds :
         /\ cells[P][c].st = "Free" => cells'[P][c].st \in {"Free", "Pending"}
         /\ (cells[P][c].st = "Pending" /\ cells'[P][c].st = "Ready")
              => (apiOp'[1] = "predict_batch" /\ inferLog'[P] # <<>>
                  /\ c \in TaskCells(tasks[P]))
         /\ cells[P][c].st = "Ready"
              => (cells'[P][c] = cells[P][c] \/ cells'[P][c].st = "Free")
         /\ (cells[P][c].st = "Ready" /\ apiOp'[1] = "poll" /\ apiOp'[2] = c)
              => (apiOp'[3] = cells[P][c] /\ cells'[P][c] = cells[P][c])]_vars

\* a Ready cell has been polled, and a later flush has run since it was set
C3_Witness ==
    /\ apiOp[1] = "poll"
    /\ apiOp[3].st = "Ready"
    /\ \E c \in HeldByClient : cells[P][c].st = "Pending"
    /\ \E c, d \in HeldByClient : c # d /\ cells[P][c].st = "Ready" /\ cells[P][d].st = "Ready"
                                  /\ cells[P][c] # cells[P][d]

\* C7: a flush whose table holds an identifier with no loaded network
\* panics, and leaves every cell enqueued under such an identifier as it was.
C7_UnloadedIsFatal ==
    [][(apiOp'[1] = "predict_batch" /\ apiPc = "run"
        /\ \E name \in DOMAIN tasks[P] : name \notin DOMAIN networks[P])
       => /\ apiPc' = "panic"
          /\ \A name \in DOMAIN tasks[P] : name \notin DOMAIN networks[P] =>
               \A k \in 1..Len(tasks[P][name]) :
                  /\ cells'[P][tasks[P][name][k].cell] = cells[P][tasks[P][name][k].cell]
                  /\ cells'[P][tasks[P][name][k].cell].st # "Ready"]_vars

\* a flush panicked on an unloaded identifier after resolving a loaded one
C7_Witness ==
    /\ apiPc = "panic"
    /\ \E name \in DOMAIN tasks[P] : name \notin DOMAIN networks[P]
    /\ \E name \in DOMAIN tasks[P] :
          /\ name \in DOMAIN networks[P]
          /\ cells[P][tasks[P][name][1].cell].st = "Ready"

\* C8: a flush on an empty table returns normally, makes no inference call
\* and changes neither the loaded networks, nor the table, nor any cell.
C8_EmptyFlushNoOp ==
    [][(apiOp'[1] = "predict_batch" /\ apiPc = "run" /\ tasks[P] = EmptyMap)
       => /\ apiPc' = "run"
          /\ inferLog'[P] = <<>>
          /\ networks' = networks
          /\ tasks'[P] = EmptyMap
          /\ cells' = cells]_vars

\* an empty flush has run with a network loaded and a resolved cell alive
C8_Witness ==
    /\ apiOp = <<"predict_batch", {}>>
    /\ apiPc = "run"
    /\ DOMAIN networks[P] # {}
    /\ \E c \in HeldByClient : cells[P][c].st = "Ready"

\* C15: a flush that returns has made one inference call for each identifier
\* with an entry in the table, with that identifier's whole request list as
\* its input, and no other call; and it leaves the table with no entry.
C15_OneCallPerIdentifier ==
    [][FlushReturned =>
         /\ Len(inferLog'[P]) = Cardinality(DOMAIN tasks[P])
         /\ \A k \in 1..Len(inferLog'[P]) :
               /\ inferLog'[P][k].name \in DOMAIN tasks[P]
               /\ inferLog'[P][k].source = SourceOf(tasks[P], inferLog'[P][k].name)
         /\ \A name \in DOMAIN tasks[P] :
               \E k \in 1..Len(inferLog'[P]) : inferLog'[P][k].name = name
         /\ DOMAIN tasks'[P] = {}]_vars

\* a flush has made a single call, with a list of two requests, while a
\* second network was loaded that had no request pending
C15_Witness ==
    /\ apiPc = "run"
    /\ apiOp[1] = "predict_batch"
    /\ Cardinality(DOMAIN networks[P]) = 2
    /\ Len(inferLog[P]) = 1
    /\ Len(inferLog[P][1].source) = 2
    /\ DOMAIN tasks[P] = {}

\* C11: a call of load_network for an identifier that is already loaded
\* changes neither the network loaded for it, nor the network loaded for any
\* other identifier, nor the pending-request table; and no call of
\* load_network changes a network that was loaded before it.
C11_LoadNetworkIdempotent ==
    [][apiOp'[1] = "load_network" =>
         /\ \A name \in DOMAIN networks[P] :
               /\ name \in DOMAIN networks'[P]
               /\ networks'[P][name] = networks[P][name]
         /\ apiOp'[2] \in DOMAIN networks[P] => networks' = networks
         /\ tasks' = tasks
         /\ cells' = cells]_vars

\* load_network has been called for a loaded identifier with weights other
\* than those loaded, another identifier being loaded and a request pending
C11_Witness ==
    /\ apiOp[1] = "load_network"
    /\ Cardinality(DOMAIN networks[P]) = 2
    /\ networks[P][apiOp[2]] # apiOp[3]
    /\ tasks[P] # EmptyMap

----------------------------------------------------------------------------
(* Claims about selfplay_thread, checked under SpecWorker *)

\* C2: whenever a flush can start, and in every other state of a thread,
\* each identifier with an entry in the pending-request table is loaded in
\* the thread's Predictor, as is the identifier in the current-version cell
\* and the identifier each session plays under.
C2_PendingIdsLoaded ==
    \A t \in Spawned :
       /\ DOMAIN tasks[t] \subseteq DOMAIN networks[t]
       /\ graph_info[t] # NoGraphInfo => graph_info[t][1] \in DOMAIN networks[t]
       /\ \A i \in Slots : sess[t][i].name # NoName
                             => sess[t][i].name \in DOMAIN networks[t]

\* a flush is about to start on a table with entries under two identifiers
C2_Witness ==
    /\ wpc[1] = "drive"
    /\ batch_size = 2
    /\ polled[1] = Slots
    /\ Cardinality(DOMAIN tasks[1]) = 2
    /\ graph_info[1][1] # sess[1][1].name

\* the thread has created nothing and sent nothing
Untouched(t) ==
    /\ networks[t] = EmptyMap
    /\ tasks[t] = EmptyMap
    /\ \A c \in CellIds : cells[t][c] = Free
    /\ \A i \in SlotIds : sess[t][i] = NewSession
    /\ graph_info[t] = NoGraphInfo
    /\ replayChan = <<>>

\* C5: a thread whose channel is closed and empty while it is still in its
\* bootstrap has created no session and sent no replay, its only step is to
\* return, and that step creates no session, enqueues nothing and sends
\* nothing.
C5_ClosedBeforeFirstModel ==
    [][\A t \in Spawned :
         (wpc[t] = "boot" /\ chan[t] = <<>> /\ ~senderAlive[t])
         => /\ Untouched(t)
            /\ ENABLED BootClosed(t)
            /\ wpc'[t] \in {"boot", "done"}
            /\ Untouched(t)']_vars

\* a thread with two slots has returned from its bootstrap
C5_Witness ==
    /\ wpc[1] = "done"
    /\ batch_size = 2
    /\ graph_info[1] = NoGraphInfo
    /\ ~senderAlive[1]

\* what thread t owns
ThreadState(t) ==
    <<networks[t], tasks[t], cells[t], round[t], polled[t], graph_info[t], sess[t]>>

\* C6: a thread in its model sync whose channel is closed and empty can
\* only return; a thread that has returned polls no session and runs no
\* flush any more, and sends no replay: its sessions stay where they were.
C6_DisconnectedStopsThread ==
    [][\A t \in Spawned :
         /\ (wpc[t] = "sync" /\ chan[t] = <<>> /\ ~senderAlive[t])
            => /\ ENABLED SyncDisconnected(t)
               /\ wpc'[t] \in {"sync", "done"}
               /\ ThreadState(t)' = ThreadState(t)
               /\ Len(replayChan') <= Len(replayChan)
         /\ wpc[t] = "done"
            => /\ wpc'[t] = "done"
               /\ ThreadState(t)' = ThreadState(t)
               /\ Len(replayChan') <= Len(replayChan)]_vars

\* a thread has returned from its model sync with a session in mid-game
C6_Witness ==
    /\ wpc[1] = "done"
    /\ graph_info[1] # NoGraphInfo
    /\ \E i \in Slots : /\ sess[1][i].pc = "await"
                       /\ sess[1][i].samples # <<>>
                       /\ ~is_terminated(sess[1][i].state)

\* C9: a session that awaits and has not been polled in the round under way
\* finds its cell Ready with the output for its own input, and what a
\* session's await returned is the output for the input it had enqueued.
C9_OwnOutput ==
    \A t \in Spawned : \A i \in Slots :
       /\ (wpc[t] \in {"sync", "drive"} /\ i \notin polled[t] /\ sess[t][i].pc = "await")
          => cells[t][sess[t][i].cell] =
               Ready(Infer(networks[t][sess[t][i].name], sess[t][i].req))
       /\ sess[t][i].obs # NoObs
          => sess[t][i].obs.out = Infer(networks[t][sess[t][i].obs.name], sess[t][i].obs.x)

\* two sessions under one identifier have resumed in the same round, each
\* from a different input, the second slot having been polled first
C9_Witness ==
    /\ batch_size = 2
    /\ wpc[1] = "drive"
    /\ polled[1] = {1, 2}
    /\ sess[1][1].obs # NoObs /\ sess[1][2].obs # NoObs
    /\ sess[1][1].obs.name = sess[1][2].obs.name
    /\ sess[1][1].obs.x # sess[1][2].obs.x
    /\ sess[1][2].cell < sess[1][1].cell

\* in this step the executor polled slot i of thread t and its session ran on
\* to its next await
Advanced(t, i) ==
    /\ i \notin polled[t] /\ i \in polled'[t]
    /\ sess[t][i].pc = "start" \/ sess'[t][i].obs # NoObs

\* the request awaited through cell c is listed under name
QueuedUnder(tk, name, c) ==
    name \in DOMAIN tk /\ \E k \in 1..Len(tk[name]) : tk[name][k].cell = c

\* in this step slot i of thread t ended a game and sent its replay
SentReplay(t, i) ==
    /\ Advanced(t, i)
    /\ sess[t][i].pc = "await" /\ sess'[t][i].samples = <<>>
    /\ Len(replayChan') = Len(replayChan) + 1

\* C12 as stated: the first request of every search is enqueued under the
\* identifier the current-version cell holds when that search begins.
C12_ReadPerTurn ==
    [][\A t \in Spawned : \A i \in Slots :
         (Advanced(t, i) /\ sess'[t][i].sim = 0)
         => QueuedUnder(tasks'[t], graph_info[t][1], sess'[t][i].cell)]_vars

\* C12, amended: the cell is read once per game. The first search of a game
\* enqueues under the identifier the current-version cell holds when the
\* game begins, and every later search of that game enqueues under the
\* identifier the game began with, whatever the cell holds by then.
C12_ReadPerGame ==
    [][\A t \in Spawned : \A i \in Slots :
         (Advanced(t, i) /\ sess'[t][i].sim = 0)
         => LET used == IF sess'[t][i].samples = <<>> THEN graph_info[t][1]
                        ELSE sess[t][i].name
            IN /\ sess'[t][i].name = used
               /\ QueuedUnder(tasks'[t], used, sess'[t][i].cell)]_vars

\* a session in mid-game has enqueued a search under an identifier that is
\* no longer the one in the current-version cell
C12_Witness ==
    /\ wpc[1] = "drive"
    /\ \E i \in polled[1] :
          /\ sess[1][i].pc = "await"
          /\ sess[1][i].obs # NoObs
          /\ sess[1][i].samples # <<>>
          /\ sess[1][i].name # graph_info[1][1]
          /\ QueuedUnder(tasks[1], sess[1][i].name, sess[1][i].cell)

\* C13: every pending request of a session is listed under the identifier
\* of the session's game; that identifier changes only where a new game
\* begins; and the replay a session sends for a game carries the identifier
\* the game was played under.
C13_ReplayTaggedWithUsed ==
    [][/\ \A t \in Spawned : \A i \in Slots :
            /\ (i \in polled'[t] /\ sess'[t][i].pc = "await"
                 /\ sess'[t][i].cell \in TaskCells(tasks'[t]))
               => QueuedUnder(tasks'[t], sess'[t][i].name, sess'[t][i].cell)
            /\ (sess'[t][i].name # sess[t][i].name /\ ~Panicked(t)')
               => /\ sess'[t][i].samples = <<>>
                  /\ sess[t][i].pc = "start" \/ SentReplay(t, i)
       /\ Len(replayChan') > Len(replayChan)
            => \E t \in Spawned : \E i \in Slots :
                  /\ SentReplay(t, i)
                  /\ replayChan'[Len(replayChan')].name = sess[t][i].name]_vars

\* the one session of a thread has just sent the replay of a game during
\* which the current-version cell changed, and has begun its next game under
\* the new identifier
C13_Witness ==
    /\ batch_size = 1
    /\ wpc[1] = "drive" /\ polled[1] = {1}
    /\ sess[1][1].obs # NoObs /\ sess[1][1].samples = <<>>
    /\ Len(replayChan) = 1
    /\ replayChan[1].name = sess[1][1].obs.name
    /\ replayChan[1].name # graph_info[1][1]
    /\ sess[1][1].name = graph_info[1][1]

\* C14: a step sends at most one replay. The replay a session sends holds
\* one sample per action of the game, the k-th being the state before the
\* k-th action, a final state that is terminated, and the terminal reward
\* of that final state; a session whose search ended in a state that is not
\* terminated sends nothing and goes on with the same game.
C14_OneReplayPerGame ==
    [][/\ Len(replayChan') <= Len(replayChan) + 1
       /\ \A t \in Spawned : \A i \in Slots :
            /\ SentReplay(t, i)
               => LET replay == replayChan'[Len(replayChan')]
                  IN /\ replay.samples = Append(sess[t][i].samples, sess[t][i].state)
                     /\ \A k \in 1..Len(replay.samples) :
                           /\ replay.samples[k].turn = k - 1
                           /\ ~is_terminated(replay.samples[k])
                     /\ replay.last_state.turn = Len(replay.samples)
                     /\ is_terminated(replay.last_state)
                     /\ replay.reward = get_reward(replay.last_state)
            /\ (Advanced(t, i) /\ sess[t][i].pc = "await" /\ sess'[t][i].sim = 0
                 /\ ~SentReplay(t, i))
               => /\ sess'[t][i].samples = Append(sess[t][i].samples, sess[t][i].state)
                  /\ sess'[t][i].state.turn = sess[t][i].state.turn + 1
                  /\ ~is_terminated(sess'[t][i].state)
                  /\ Len(replayChan') <= Len(replayChan)]_vars

\* one thread with one slot has sent the replay of a game that ran its full
\* length, and nothing else
C14_Witness ==
    /\ batch_size = 1
    /\ received = <<>> /\ Len(replayChan) = 1
    /\ Len(replayChan[1].samples) = GameLen
    /\ replayChan[1].last_state.turn = GameLen
    /\ replayChan[1].reward = get_reward(replayChan[1].last_state)

\* in this step thread t ran a flush that returned
FlushStep(t) ==
    /\ wpc[t] = "drive" /\ ~Panicked(t)'
    /\ round'[t] = round[t] + 1 \/ wpc'[t] = "sync"

\* a session but for the record of what its last await returned
SessionCore(s) == [s EXCEPT !.obs = NoObs]

\* C16: the drive rounds of a cycle are numbered 0..DriveRounds-1 from the
\* model sync on. A flush starts only when every slot has been polled in
\* the round, runs no session and enqueues nothing, empties the table and
\* ends the round; the DriveRounds-th flush, and no other, leads back to
\* the model sync. Between flushes each slot is polled at most once, and
\* requests are enqueued only by polls.
C16_StrictAlternation ==
    [][\A t \in Spawned :
         /\ round[t] \in 0..(DriveRounds - 1)
         /\ (wpc[t] = "sync" /\ wpc'[t] = "drive")
            => (round'[t] = 0 /\ polled'[t] = {})
         /\ FlushStep(t)
            => /\ polled[t] = Slots /\ polled'[t] = {}
               /\ tasks'[t] = EmptyMap
               /\ \A i \in Slots : SessionCore(sess'[t][i]) = SessionCore(sess[t][i])
               /\ wpc'[t] = "sync" <=> round[t] = DriveRounds - 1
               /\ wpc'[t] = "drive" => round'[t] = round[t] + 1
         /\ (wpc[t] = "drive" /\ ~Panicked(t)' /\ ~FlushStep(t))
            => /\ wpc'[t] = "drive" /\ round'[t] = round[t]
               /\ polled[t] \subseteq polled'[t]
               /\ Cardinality(polled'[t] \ polled[t]) <= 1
               /\ sess'[t] # sess[t] => polled'[t] # polled[t]
               /\ tasks'[t] # tasks[t] => polled'[t] # polled[t]
         /\ (wpc[t] # "drive" /\ ~Panicked(t)')
            => (tasks'[t] = tasks[t] /\ \A i \in Slots : sess'[t][i] = sess[t][i])]_vars

\* a thread with two slots is back in its model sync, its fifth flush having
\* just made an inference call
C16_Witness ==
    /\ batch_size = 2
    /\ wpc[1] = "sync" /\ round[1] = 0
    /\ inferLog[1] # <<>>
    /\ tasks[1] = EmptyMap
    /\ \A i \in Slots : sess[1][i].pc = "await"

\* C17: in a thread past its bootstrap every one of the batch_size slots
\* holds a session that is about to start or suspended on a live cell. The
\* step in which a session sends a replay leaves, in the same slot, a
\* session at the first search of a new game: under the identifier the
\* current-version cell holds, in the initial state, with no sample, and
\* suspended on a request listed under that identifier; the thread goes on
\* driving and the other slots are as they were.
C17_SlotRestarts ==
    [][\A t \in Spawned :
         /\ wpc[t] \in {"sync", "drive"}
            => \A i \in Slots :
                  /\ sess[t][i].pc \in {"start", "await"}
                  /\ sess[t][i].pc = "await" => cells[t][sess[t][i].cell].st # "Free"
         /\ \A i \in Slots :
               SentReplay(t, i)
               => /\ wpc'[t] = "drive"
                  /\ sess'[t][i].pc = "await"
                  /\ sess'[t][i].name = graph_info[t][1]
                  /\ sess'[t][i].state = initial_state
                  /\ sess'[t][i].samples = <<>>
                  /\ sess'[t][i].sim = 0
                  /\ cells'[t][sess'[t][i].cell] = PredictResult_new
                  /\ QueuedUnder(tasks'[t], graph_info[t][1], sess'[t][i].cell)
                  /\ \A j \in Slots \ {i} : sess'[t][j] = sess[t][j]]_vars

\* of two slots, one has just sent a replay and begun a game under a newer
\* identifier while the other is in mid-game
C17_Witness ==
    /\ batch_size = 2
    /\ wpc[1] = "drive"
    /\ Len(replayChan) = 1
    /\ \E i, j \in Slots :
          /\ i # j /\ i \in polled[1]
          /\ sess[1][i].obs # NoObs /\ sess[1][i].samples = <<>>
          /\ sess[1][i].pc = "await"
          /\ sess[1][i].name # replayChan[1].name
          /\ sess[1][j].samples # <<>>

\* C18: a thread takes notifications off its channel only in its bootstrap
\* and its model sync, one at a time from the head; each one taken is loaded
\* and becomes the content of the current-version cell, and nothing loaded
\* before is lost. Nothing else changes the cell or the loaded networks. The
\* sync ends only on an empty channel, and on an empty open channel it can
\* end at once; a game begun afterwards is played under the identifier in
\* the cell.
C18_SyncDrains ==
    [][\A t \in Spawned : ~Panicked(t)' =>
         /\ Len(chan'[t]) < Len(chan[t])
            => /\ wpc[t] \in {"boot", "sync"}
               /\ chan'[t] = Tail(chan[t])
               /\ graph_info'[t] = Head(chan[t])
               /\ Head(chan[t])[1] \in DOMAIN networks'[t]
               /\ \A name \in DOMAIN networks[t] :
                     /\ name \in DOMAIN networks'[t]
                     /\ networks'[t][name] = networks[t][name]
         /\ Len(chan'[t]) >= Len(chan[t])
            => (graph_info'[t] = graph_info[t] /\ networks'[t] = networks[t])
         /\ (wpc[t] = "sync" /\ wpc'[t] = "drive") => chan[t] = <<>>
         /\ (wpc[t] = "sync" /\ chan[t] = <<>> /\ senderAlive[t])
            => ENABLED SyncEmpty(t)
         /\ \A i \in Slots :
               (Advanced(t, i) /\ sess'[t][i].samples = <<>> /\ sess'[t][i].sim = 0)
               => sess'[t][i].name = graph_info[t][1]]_vars

\* a model sync has just ended on a drained channel with a second identifier
\* loaded and in the current-version cell, a game being under way under the
\* first
C18_Witness ==
    /\ wpc[1] = "drive" /\ round[1] = 0 /\ polled[1] = {}
    /\ chan[1] = <<>>
    /\ Cardinality(DOMAIN networks[1]) = 2
    /\ \E i \in Slots : /\ sess[1][i].samples # <<>>
                       /\ sess[1][i].name # graph_info[1][1]

\* the cells awaited by the sessions of thread t polled in the round under way
AwaitedThisRound(t) ==
    {sess[t][i].cell : i \in {j \in polled[t] : sess[t][j].pc = "await"}}

\* in a running thread the table holds exactly the requests of the sessions
\* polled in the round under way, each still Pending, and the cell of every
\* other suspended session is Ready
TableInv ==
    \A t \in Spawned : wpc[t] \in {"sync", "drive"} =>
       /\ (wpc[t] = "sync" \/ polled[t] = {}) => tasks[t] = EmptyMap
       /\ TaskCells(tasks[t]) = AwaitedThisRound(t)
       /\ \A i \in Slots : sess[t][i].pc = "await" =>
             cells[t][sess[t][i].cell].st = IF i \in polled[t] THEN "Pending"
                                            ELSE "Ready"

\* C19: the table is empty at every model sync and at the start of every
\* poll round, and holds only requests of the round under way; a flush that
\* returns leaves the cell of every suspended session Ready; and a poll of
\* a suspended session finds its cell Ready and takes the session past its
\* await.
C19_ResolvedWithinRound ==
    /\ []TableInv
    /\ [][\A t \in Spawned :
            /\ FlushStep(t)
               => \A i \in Slots : sess[t][i].pc = "await" =>
                     /\ sess[t][i].cell \in TaskCells(tasks[t])
                     /\ cells'[t][sess[t][i].cell].st = "Ready"
            /\ \A i \in Slots :
                  (i \notin polled[t] /\ i \in polled'[t] /\ sess[t][i].pc = "await")
                  => /\ cells[t][sess[t][i].cell].st = "Ready"
                     /\ sess'[t][i].obs.out = cells[t][sess[t][i].cell].val]_vars

\* a poll round is about to start, not the first of its cycle, with two
\* sessions suspended on Ready cells that were resolved under two identifiers
C19_Witness ==
    /\ batch_size = 2
    /\ wpc[1] = "drive" /\ polled[1] = {} /\ round[1] > 0
    /\ tasks[1] = EmptyMap
    /\ Len(inferLog[1]) = 2
    /\ sess[1][1].name # sess[1][2].name
    /\ \A i \in Slots : /\ sess[1][i].pc = "await"
                       /\ cells[1][sess[1][i].cell].st = "Ready"

----------------------------------------------------------------------------
(* Claims about write_replays, checked under FairSpecWriter *)

RECURSIVE SumSamples(_)
SumSamples(rs) == IF rs = <<>> THEN 0 ELSE Len(Head(rs).samples) + SumSamples(Tail(rs))

\* the counts and the sink agree with what was received, and the sink is
\* flushed at most once, on a closed and drained channel
WriterInv ==
    /\ sink = received
    /\ replay_count = Len(received)
    /\ sample_count = SumSamples(received)
    /\ flushCalls \in {0, 1}
    /\ flushCalls = 1 => (wrPc # "run" /\ replayChan = <<>> /\ ReplayChannelClosed)
    /\ wrPc = "done" => flushCalls = 1

\* C10: the sink is passed exactly the records received, in order; the
\* counts are those of the records received; and once the channel is closed
\* and drained the writer flushes the sink once and ends.
C10_WriterCountsAndFlush ==
    /\ []WriterInv
    /\ (ReplayChannelClosed /\ replayChan = <<>> /\ wrPc = "run")
          ~> (flushCalls = 1 /\ wrPc # "run")

\* the writer has ended after two different records and one flush
C10_Witness ==
    /\ wrPc = "done"
    /\ Len(received) = 2
    /\ received[1] # received[2]
    /\ Len(received[1].samples) # Len(received[2].samples)
    /\ flushCalls = 1

----------------------------------------------------------------------------
(* Claims about run_simulation, checked under Spec *)

\* the next poll of slot i of thread t ends its game: the session is in its
\* last search before the action that must terminate the game, and its cell
\* is Ready
AtLastAction(t, i) ==
    /\ sess[t][i].pc = "await"
    /\ sess[t][i].sim = SimNum - 1
    /\ sess[t][i].state.turn = GameLen - 1
    /\ cells[t][sess[t][i].cell].st = "Ready"

\* C20: once write_replays has panicked, no replay is queued any more and no
\* session of a thread that goes on running ends a game and begins another:
\* when each session still to be polled in the round is about to end its
\* game, the thread's next step is a panic. And once a thread has ended,
\* the broadcast that reaches it queues nothing and panics run_simulation.
C20_WriterFailureCascades ==
    [][/\ wrPc = "panic"
          => /\ Len(replayChan') <= Len(replayChan)
             /\ \A t \in Spawned :
                  /\ ~Panicked(t)'
                     => \A i \in Slots :
                           sess[t][i].pc = "await"
                           => Len(sess'[t][i].samples) >= Len(sess[t][i].samples)
                  /\ (wpc[t] = "drive" /\ polled[t] # Slots
                      /\ \A i \in Slots \ polled[t] : AtLastAction(t, i)
                      /\ ThreadState(t)' # ThreadState(t))
                     => wpc'[t] = "panic_send"
       /\ (mainPc = "broadcast" /\ Ended(idx) /\ <<mainPc, idx>>' # <<mainPc, idx>>)
          => (mainPc' = "panic_send" /\ chan' = chan)]_vars

\* the writer has panicked on the write of the first replay, the thread that
\* played has panicked on a send, and run_simulation has panicked on its
\* broadcast to that thread
C20_Witness ==
    /\ thread_num = 1 /\ batch_size >= 1
    /\ wrPc = "panic" /\ flushCalls = 0
    /\ Len(received) = 1 /\ replayChan = <<>>
    /\ wpc[1] = "panic_send"
    /\ mainPc = "panic_send"

\* C4: once the selection loop has exited on a hard error and the loop over
\* the senders has run, the notification channel of every thread is closed.
C4_HardErrorClosesChannels ==
    mainPc \in {"join", "dropw", "joinw", "done"}
       => \A t \in Spawned : ~senderAlive[t]

====
